---- MODULE Spec2Model ----
(***************************************************************************)
(* Model of package alice (src/chain.go): chains of http.Handler            *)
(* constructors (middleware) and endware, their extension operations and   *)
(* the handler that Then assembles.                                        *)
(*                                                                         *)
(* src/chain.go holds two revisions of the package one after the other     *)
(* (lines 1-167 and lines 169-331).  They agree on everything except       *)
(* After: lines 147-149 append the given endware to the receiver's, lines  *)
(* 310-312 store the caller's slice itself.  The variable rev says which   *)
(* revision is built; it is chosen in Init and never changes.              *)
(*                                                                         *)
(* Go slices are modelled as slice headers [arr, len] into a heap of       *)
(* backing arrays, so that sharing of backing storage between chains and   *)
(* the caller is visible.  Handlers are objects (closures) in objs.        *)
(*                                                                         *)
(* Four specifications share the operators: SpecBuild builds and extends   *)
(* chains from nothing, SpecExtend extends two chains that both hold       *)
(* endware, SpecServe materializes one chain and serves requests, SpecConc *)
(* runs the operations in several goroutines, statement by statement.      *)
(***************************************************************************)
EXTENDS Naturals, Sequences, FiniteSets, TLC

VARIABLES
    rev,        \* which revision of After is built (1: lines 147-149, 2: lines 310-312)
    heap,       \* backing arrays of all slices: Seq(Seq(function name))
    chains,     \* the Chain values produced so far
    objs,       \* handler objects: the closures of Then and the middleware instances
    handlers,   \* what Then / ThenFunc returned: the http.Handler h, and the call made
                \* (chain: index of the receiver, term: the argument, via: the method)
    requests,   \* number of requests served
    mutations,  \* number of writes the caller made to its own arrays
    trace,      \* call events of the last operation
    lastOp,     \* the last operation, its inputs and the state it started from
    origin,     \* for each chain, the operation that returned it
    threads     \* goroutines running one operation each, step by step (SpecConc)

vars ==
    <<rev, heap, chains, objs, handlers, requests, mutations, trace, lastOp, origin, threads>>

\* ---------------------------------------------------------------- bounds
MaxChains == 3      \* chains built from scratch (SpecBuild)
MaxHandlers == 2    \* calls of Then / ThenFunc
MaxRequests == 1    \* requests served
MaxLen == 2         \* length of each of the caller's arrays
MaxCalls == 2       \* calls a middleware makes of the handler it wraps, per request
MaxMutations == 1   \* writes of the caller to its own arrays
MaxThreads == 2     \* goroutines that use the chains at the same time (SpecConc)
MaxOps == 2         \* operations the goroutines start (SpecConc)

\* ------------------------------------------------------- caller's values
\* The caller's backing arrays: two of constructors, one of endware.  The
\* caller passes prefixes of them with the `s...` form, and may overwrite
\* their elements afterwards (with MutatedCons / MutatedEnd).
CallerConsArrays == {1, 2}
CallerEndArrays == {3}
CallerHeap ==
    << SubSeq(<<"m1", "m2", "m5">>, 1, MaxLen),
       SubSeq(<<"m3", "m4", "m6">>, 1, MaxLen),
       SubSeq(<<"e1", "e2", "e3">>, 1, MaxLen) >>
MutatedCons == "mX"
MutatedEnd == "eX"
\* Terminal handlers the caller may pass; Nil is the nil interface / nil func.
Nil == "nil"
TerminalFns == {"h1", "h2"}
DefaultServeMux == "DefaultServeMux"

\* ------------------------------------------------------------- Go slices
NilSlice == [arr |-> 0, len |-> 0]

\* The elements a slice header shows, read from the heap now.
View(hp, s) == IF s.arr = 0 THEN << >> ELSE SubSeq(hp[s.arr], 1, s.len)

\* make([]T, 0, n) followed by appends of exactly n elements: a fresh
\* backing array holding elems.  A zero-size allocation has no storage.
MakeSlice(hp, elems) ==
    IF Len(elems) = 0
    THEN [heap |-> hp, slice |-> NilSlice]
    ELSE [heap |-> Append(hp, elems),
          slice |-> [arr |-> Len(hp) + 1, len |-> Len(elems)]]

\* ------------------------------------------------------------ type Chain
Chain(cons, ends) == [constructors |-> cons, endware |-> ends]

Constructors(hp, c) == View(hp, c.constructors)
Endwares(hp, c) == View(hp, c.endware)

\* New: Chain{append(([]Constructor)(nil), constructors...), nil}
New(hp, constructors) ==
    LET m == MakeSlice(hp, View(hp, constructors))
    IN  [heap |-> m.heap, chain |-> Chain(m.slice, NilSlice)]

\* Append: copy the receiver's constructors and the arguments into a new
\* slice; the endware slice header is carried over.
ChainAppendDroppingEndware(hp, c, constructors) ==
    LET m == MakeSlice(hp, Constructors(hp, c) \o View(hp, constructors))
    IN  [heap |-> m.heap, chain |-> Chain(m.slice, NilSlice)]

ChainAppendInPlace(hp, c, constructors) ==
    IF c.constructors.arr = 0
    THEN LET m == MakeSlice(hp, View(hp, constructors))
         IN  [heap |-> m.heap, chain |-> Chain(m.slice, c.endware)]
    ELSE LET a == c.constructors.arr
             elems == Constructors(hp, c) \o View(hp, constructors)
         IN  [heap |-> [hp EXCEPT ![a] = elems],
              chain |-> Chain([arr |-> a, len |-> Len(elems)], c.endware)]

ChainAppendInFront(hp, c, constructors) ==
    LET m == MakeSlice(hp, View(hp, constructors) \o Constructors(hp, c))
    IN  [heap |-> m.heap, chain |-> Chain(m.slice, c.endware)]

ChainAppend(hp, c, constructors) ==
    LET m == MakeSlice(hp, Constructors(hp, c) \o View(hp, constructors))
    IN  [heap |-> m.heap, chain |-> Chain(m.slice, c.endware)]

\* AppendEndware: the same for the endware; constructors carried over.
AppendEndware(hp, c, endwares) ==
    LET m == MakeSlice(hp, Endwares(hp, c) \o View(hp, endwares))
    IN  [heap |-> m.heap, chain |-> Chain(c.constructors, m.slice)]

\* After, first revision (lines 147-149):
\*   Chain{c.constructors, c.endware}.AppendEndware(endwares...)
AfterAppending(hp, c, endwares) ==
    AppendEndware(hp, Chain(c.constructors, c.endware), endwares)

\* After, second revision (lines 310-312): Chain{c.constructors, endwareFns}
AfterReplacing(hp, c, endwareFns) ==
    [heap |-> hp, chain |-> Chain(c.constructors, endwareFns)]

After(r, hp, c, endwares) ==
    IF r = 1 THEN AfterAppending(hp, c, endwares)
             ELSE AfterReplacing(hp, c, endwares)

\* Extend: c.Append(chain.constructors...).AppendEndware(chain.endware...)
ExtendEndwareInFront(hp, c, chain) ==
    LET a == ChainAppend(hp, c, chain.constructors)
    IN  AppendEndware(a.heap, Chain(a.chain.constructors, chain.endware), c.endware)

Extend(hp, c, chain) ==
    LET a == ChainAppend(hp, c, chain.constructors)
    IN  AppendEndware(a.heap, a.chain, chain.endware)

\* ------------------------------------------------------- http.Handler values
\* An http.Handler value: the nil interface, a terminal handler given by the
\* caller, or a reference to an object of objs.
NilHandler == [kind |-> "nil", name |-> Nil, id |-> 0]
Term(name) == [kind |-> "term", name |-> name, id |-> 0]
Obj(id) == [kind |-> "obj", name |-> "", id |-> id]

\* http.HandlerFunc(fn) stored in an http.Handler: a nil func gives an interface
\* value that is not nil and that panics when called.
NilFunc == "nilfunc"
HandlerFunc(fn) == IF fn = Nil THEN Term(NilFunc) ELSE Term(fn)

\* The caller's terminal handler as an http.Handler.
Handler(h) == IF h = Nil THEN NilHandler ELSE Term(h)

Event(op, fn, id) == [op |-> op, fn |-> fn, id |-> id]

NoChain == Chain(NilSlice, NilSlice)

\* A middleware constructor called with h: a new middleware instance wrapping
\* h, with its own state (hits: the requests that entered it).
Construct(st, fn) ==
    [objs |-> Append(st.objs, [kind |-> "wrapper", fn |-> fn, next |-> st.h,
                               c |-> NoChain, hits |-> 0]),
     h |-> Obj(Len(st.objs) + 1),
     events |-> Append(st.events, Event("construct", fn, Len(st.objs) + 1))]

\* for i := range c.constructors { h = c.constructors[len(c.constructors)-1-i](h) }
RECURSIVE ThenLoopForward(_, _, _)
ThenLoopForward(st, cons, i) ==
    IF i >= Len(cons) THEN st
    ELSE ThenLoopForward(Construct(st, cons[i + 1]), cons, i + 1)

RECURSIVE ThenLoopSkipping(_, _, _)
ThenLoopSkipping(st, cons, i) ==
    IF i + 1 >= Len(cons) THEN st
    ELSE ThenLoopSkipping(Construct(st, cons[Len(cons) - i]), cons, i + 1)

RECURSIVE ThenLoop(_, _, _)
ThenLoop(st, cons, i) ==
    IF i >= Len(cons) THEN st
    ELSE ThenLoop(Construct(st, cons[Len(cons) - i]), cons, i + 1)

\* The closure of Then (lines 53-59).  It holds the chain value c and the
\* variable h of Then, not the value h had when the closure was made: next is
\* what that variable holds.  given keeps the value h had at line 53, when
\* the closure was made out of it: the handler Then was called with, or
\* http.DefaultServeMux; the assignment of line 53 overwrites it in h.
Adapter(h, c) ==
    [kind |-> "adapter", fn |-> "", next |-> h, given |-> h, c |-> c, hits |-> 0]

\* Then: nil becomes http.DefaultServeMux; the closure is assigned to h; the
\* constructors are called last to first, each result assigned to h; h is
\* returned.  The closure shares the variable h, so when a request runs it
\* the h it calls is the handler Then returned.  Result: the objects, the
\* handler and the calls made.
ThenEndwareOutside(ob, hp, c, h) ==
    LET h1 == IF h.kind = "nil" THEN Term(DefaultServeMux) ELSE h
        st == ThenLoop([objs |-> ob, h |-> h1, events |-> << >>], Constructors(hp, c), 0)
    IN  [objs |-> Append(st.objs, Adapter(st.h, c)),
         h |-> Obj(Len(st.objs) + 1),
         events |-> st.events]

ThenCallingEndware(ob, hp, c, h) ==
    LET h1 == IF h.kind = "nil" THEN Term(DefaultServeMux) ELSE h
        st == ThenLoop([objs |-> Append(ob, Adapter(h1, c)), h |-> Obj(Len(ob) + 1),
                        events |-> << >>],
                       Constructors(hp, c), 0)
    IN  [st EXCEPT !.objs[Len(ob) + 1].next = st.h,
                   !.events = @ \o [i \in 1..Len(Endwares(hp, c)) |->
                                        Event("endware", Endwares(hp, c)[i], 0)]]

ThenReversingInPlace(ob, hp, c, h) ==
    LET h1 == IF h.kind = "nil" THEN Term(DefaultServeMux) ELSE h
        st0 == [objs |-> Append(ob, Adapter(h1, c)), h |-> Obj(Len(ob) + 1), events |-> << >>]
        before == {id \in DOMAIN ob : ob[id].kind = "adapter" /\ ob[id].c = c}
        st == IF Cardinality(before) % 2 = 0 THEN ThenLoop(st0, Constructors(hp, c), 0)
              ELSE ThenLoopForward(st0, Constructors(hp, c), 0)
    IN  [st EXCEPT !.objs[Len(ob) + 1].next = st.h]

Then(ob, hp, c, h) ==
    LET h1 == IF h.kind = "nil" THEN Term(DefaultServeMux) ELSE h
        st == ThenLoop([objs |-> Append(ob, Adapter(h1, c)), h |-> Obj(Len(ob) + 1),
                        events |-> << >>],
                       Constructors(hp, c), 0)
    IN  [st EXCEPT !.objs[Len(ob) + 1].next = st.h]

\* ThenFunc: nil gives c.Then(nil), anything else c.Then(fn).
ThenFuncNoNilCheck(ob, hp, c, fn) == Then(ob, hp, c, HandlerFunc(fn))

ThenFunc(ob, hp, c, fn) ==
    IF fn = Nil THEN Then(ob, hp, c, NilHandler)
    ELSE Then(ob, hp, c, HandlerFunc(fn))

\* ------------------------------------------------------------ serving
\* What the code outside the package does while one request is served:
\* calls[d] is how many times the middleware at depth d (1 = outermost)
\* invokes its wrapped handler, again whether a middleware does so too when
\* the request enters it while it is already serving that request,
\* termPanics whether the terminal handler panics, endPanic the index of the
\* endware that panics (0: none).
Behaviours ==
    {b \in [calls : [1..MaxLen -> 0..MaxCalls],
            again : BOOLEAN,
            termPanics : BOOLEAN,
            endPanic : 0..MaxLen] : ~(b.termPanics /\ b.endPanic # 0)}

CallsAt(beh, d) == IF d \in DOMAIN beh.calls THEN beh.calls[d] ELSE 1

\* How a call ends: it returns, it panics, or the goroutine's stack runs out
\* (a fatal error of the runtime, which ends the program).
NoFault == "none"
Panic == "panic"
StackOverflow == "stack overflow"

Result(ob, ev, fault) == [objs |-> ob, ev |-> ev, fault |-> fault]

\* for _, endwareFn := range c.endware { endwareFn(w, r) } (lines 56-58): the
\* endware called, in order, up to and including the one that panics.
EndwareLoop(es, beh) ==
    LET n == IF beh.endPanic \in 1..Len(es) THEN beh.endPanic ELSE Len(es)
    IN  [i \in 1..n |-> Event("endware", es[i], 0)]

\* The start of a request: the behaviour met, the middleware depth, and the
\* objects whose ServeHTTP is on the call stack.
Request(beh) == [beh |-> beh, d |-> 1, active |-> {}]

\* h.ServeHTTP(w, r) for an http.Handler value h.
RECURSIVE ServeHTTP(_, _, _, _)
RECURSIVE CallNext(_, _, _, _, _)
ServeHTTP(ob, hp, h, cx) ==
    IF h.kind = "nil" \/ (h.kind = "term" /\ h.name = NilFunc)
    THEN \* a method call on a nil interface, or a call of a nil func
         Result(ob, << >>, Panic)
    ELSE IF h.kind = "term"
    THEN Result(ob, << Event("handler", h.name, 0) >>,
                IF cx.beh.termPanics THEN Panic ELSE NoFault)
    ELSE IF ob[h.id].kind = "adapter"
    THEN \* lines 53-59: h.ServeHTTP for what the variable h holds, then the
         \* endware of the captured chain.  A closure that is reached again
         \* while it runs is reached again without end: the stack runs out.
         IF h.id \in cx.active THEN Result(ob, << >>, StackOverflow)
         ELSE LET r == ServeHTTP(ob, hp, ob[h.id].next,
                                 [cx EXCEPT !.d = 1, !.active = @ \cup {h.id}])
                  es == Endwares(hp, ob[h.id].c)
              IN  IF r.fault # NoFault THEN r
                  ELSE Result(r.objs, r.ev \o EndwareLoop(es, cx.beh),
                              IF cx.beh.endPanic \in 1..Len(es) THEN Panic ELSE NoFault)
    ELSE \* a middleware instance: it counts the request, runs its code before,
         \* calls the handler it wraps, runs its code after
         LET o == ob[h.id]
             ob1 == [ob EXCEPT ![h.id].hits = @ + 1]
             k == IF h.id \in cx.active /\ ~cx.beh.again THEN 0
                  ELSE CallsAt(cx.beh, cx.d)
             r == CallNext(ob1, hp, o.next,
                           [cx EXCEPT !.d = @ + 1, !.active = @ \cup {h.id}], k)
         IN  IF r.fault # NoFault
             THEN Result(r.objs, << Event("enter", o.fn, h.id) >> \o r.ev, r.fault)
             ELSE Result(r.objs,
                         << Event("enter", o.fn, h.id) >> \o r.ev
                            \o << Event("exit", o.fn, h.id) >>,
                         NoFault)

\* k calls of h.ServeHTTP in a row, stopped by the first fault.
CallNext(ob, hp, h, cx, k) ==
    IF k = 0 THEN Result(ob, << >>, NoFault)
    ELSE LET r1 == ServeHTTP(ob, hp, h, cx)
         IN  IF r1.fault # NoFault THEN r1
             ELSE LET r2 == CallNext(r1.objs, hp, h, cx, k - 1)
                  IN  Result(r2.objs, r1.ev \o r2.ev, r2.fault)

\* The objects a handler value reaches, and its middleware instances from the
\* outermost to the innermost.
RECURSIVE ReachFrom(_, _, _)
ReachFrom(ob, h, seen) ==
    IF h.kind # "obj" \/ h.id \in seen THEN seen
    ELSE ReachFrom(ob, ob[h.id].next, seen \cup {h.id})

Reach(ob, h) == ReachFrom(ob, h, {})

RECURSIVE LayersFrom(_, _, _)
LayersFrom(ob, h, seen) ==
    IF h.kind # "obj" \/ h.id \in seen THEN << >>
    ELSE IF ob[h.id].kind = "wrapper"
    THEN << h.id >> \o LayersFrom(ob, ob[h.id].next, seen \cup {h.id})
    ELSE LayersFrom(ob, ob[h.id].next, seen \cup {h.id})

Layers(ob, h) == LayersFrom(ob, h, {})

\* ------------------------------------------------------------ the state
ChainViews(hp, cs) ==
    [k \in 1..Len(cs) |-> [constructors |-> Constructors(hp, cs[k]),
                           endware |-> Endwares(hp, cs[k])]]

NoBehaviour ==
    [calls |-> [d \in 1..MaxLen |-> 1], again |-> TRUE, termPanics |-> FALSE, endPanic |-> 0]

\* The record kept of an operation: its kind, the receiver chain (recv), the
\* argument chain of Extend (other), the argument slice and its elements as
\* they were at the call (arg, args), the index of the chain or handler
\* returned (res), the terminal handler given (h), the behaviour during a
\* request (beh), how the request ended (fault), and the heap,
\* chains and objects the operation started from.
OpIn(hp, cs, ob, kind, recv, other, arg, res, h, beh, fault) ==
    [kind |-> kind, recv |-> recv, other |-> other, arg |-> arg, args |-> View(hp, arg),
     res |-> res, h |-> h, beh |-> beh, fault |-> fault,
     pre |-> ChainViews(hp, cs), preHeap |-> hp, preChains |-> cs, preObjs |-> ob]

Op(kind, recv, other, arg, res, h, beh, fault) ==
    OpIn(heap, chains, objs, kind, recv, other, arg, res, h, beh, fault)

\* What origin keeps of an operation.
Origin(op) == [kind |-> op.kind, recv |-> op.recv, other |-> op.other, args |-> op.args]

\* The slices the caller can pass: a prefix of one of its arrays.
ConsArgs == {[arr |-> a, len |-> n] : a \in CallerConsArrays, n \in 0..MaxLen}
EndArgs == {[arr |-> a, len |-> n] : a \in CallerEndArrays, n \in 0..MaxLen}

\* A goroutine: the operation it runs (op), where it is in it (pc), the
\* receiver (c, and recv its index in chains), the sequence being extended
\* (field), the argument slice (arg), the argument chain of Extend (other),
\* the slice being built (dst), for Then the variable h, the closure, the
\* loop index i and the calls made, and what the operation gives when it
\* runs alone from the state it started in (expect).
Idle ==
    [pc |-> "idle", op |-> "", recv |-> 0, c |-> NoChain, field |-> "", arg |-> NilSlice,
     other |-> NoChain, dst |-> NilSlice, h |-> NilHandler, term |-> Nil, closure |-> 0,
     i |-> 0, events |-> << >>, expect |-> << >>]

\* The program before any chain is built.
Init ==
    /\ rev \in {1, 2}
    /\ heap = CallerHeap
    /\ chains = << >>
    /\ objs = << >>
    /\ handlers = << >>
    /\ requests = 0
    /\ mutations = 0
    /\ trace = << >>
    /\ lastOp = OpIn(CallerHeap, << >>, << >>, "init", 0, 0, NilSlice, 0, Nil,
                     NoBehaviour, NoFault)
    /\ origin = << >>
    /\ threads = [t \in 1..MaxThreads |-> Idle]

\* The program after  c := New(s...).After(e...)  for slices s and e of the
\* caller: the state the serving specification starts from.
InitServe ==
    \E s \in {a \in ConsArgs : a.arr = 1}, e \in EndArgs :
        LET n == New(CallerHeap, s)
            a == After(rev, n.heap, n.chain, e)
            op == OpIn(n.heap, << >>, << >>, "NewAfter", 0, 0, e, 1, Nil, NoBehaviour, NoFault)
        IN  /\ rev \in {1, 2}
            /\ heap = a.heap
            /\ chains = << a.chain >>
            /\ objs = << >>
            /\ handlers = << >>
            /\ requests = 0
            /\ mutations = 0
            /\ trace = << >>
            /\ lastOp = op
            /\ origin = << Origin(op) >>
            /\ threads = [t \in 1..MaxThreads |-> Idle]

\* An operation that returns the chain r.chain and leaves the heap r.heap.
Returns(r, op) ==
    /\ Len(chains) < MaxChains
    /\ heap' = r.heap
    /\ chains' = Append(chains, r.chain)
    /\ origin' = Append(origin, Origin(op))
    /\ trace' = << >>
    /\ lastOp' = op
    /\ UNCHANGED <<rev, objs, handlers, requests, mutations, threads>>

CallNew ==
    \E s \in ConsArgs :
        Returns(New(heap, s),
                Op("New", 0, 0, s, Len(chains) + 1, Nil, NoBehaviour, NoFault))

CallAppend ==
    \E k \in 1..Len(chains), s \in ConsArgs :
        Returns(ChainAppend(heap, chains[k], s),
                Op("Append", k, 0, s, Len(chains) + 1, Nil, NoBehaviour, NoFault))

CallAppendEndware ==
    \E k \in 1..Len(chains), s \in EndArgs :
        Returns(AppendEndware(heap, chains[k], s),
                Op("AppendEndware", k, 0, s, Len(chains) + 1, Nil, NoBehaviour, NoFault))

CallAfter ==
    \E k \in 1..Len(chains), s \in EndArgs :
        Returns(After(rev, heap, chains[k], s),
                Op("After", k, 0, s, Len(chains) + 1, Nil, NoBehaviour, NoFault))

CallExtend ==
    \E k \in 1..Len(chains), j \in 1..Len(chains) :
        Returns(Extend(heap, chains[k], chains[j]),
                Op("Extend", k, j, NilSlice, Len(chains) + 1, Nil, NoBehaviour, NoFault))

\* A call of Then or ThenFunc that returns r.h, having built r.objs.
Materializes(r, op) ==
    /\ Len(handlers) < MaxHandlers
    /\ objs' = r.objs
    /\ handlers' = Append(handlers, [h |-> r.h, chain |-> op.recv, term |-> op.h,
                                     via |-> op.kind])
    /\ trace' = r.events
    /\ lastOp' = op
    /\ UNCHANGED <<rev, heap, chains, origin, requests, mutations, threads>>

CallThen ==
    \E k \in 1..Len(chains), h \in TerminalFns \cup {Nil} :
        /\ Len(Constructors(heap, chains[k])) <= MaxLen
        /\ Materializes(Then(objs, heap, chains[k], Handler(h)),
                        Op("Then", k, 0, NilSlice, Len(handlers) + 1, h, NoBehaviour, NoFault))

CallThenFunc ==
    \E k \in 1..Len(chains), fn \in TerminalFns \cup {Nil} :
        /\ Len(Constructors(heap, chains[k])) <= MaxLen
        /\ Materializes(ThenFunc(objs, heap, chains[k], fn),
                        Op("ThenFunc", k, 0, NilSlice, Len(handlers) + 1, fn, NoBehaviour,
                           NoFault))

\* One request served by handler i.
Serve ==
    \E i \in 1..Len(handlers), beh \in Behaviours :
        LET r == ServeHTTP(objs, heap, handlers[i].h, Request(beh))
        IN  /\ requests < MaxRequests
            /\ requests' = requests + 1
            /\ objs' = r.objs
            /\ trace' = r.ev
            /\ lastOp' = Op("Serve", 0, 0, NilSlice, i, Nil, beh, r.fault)
            /\ UNCHANGED <<rev, heap, chains, origin, handlers, mutations, threads>>

\* The caller overwrites an element of one of its own arrays.
CallerMutate ==
    \E a \in CallerConsArrays \cup CallerEndArrays, i \in 1..MaxLen :
        /\ mutations < MaxMutations
        /\ mutations' = mutations + 1
        /\ heap' = [heap EXCEPT ![a][i] =
                        IF a \in CallerConsArrays THEN MutatedCons ELSE MutatedEnd]
        /\ trace' = << >>
        /\ lastOp' = Op("Mutate", 0, 0, NilSlice, a, Nil, NoBehaviour, NoFault)
        /\ UNCHANGED <<rev, chains, origin, objs, handlers, requests, threads>>

\* Building and extending chains.
NextBuild ==
    \/ CallNew
    \/ CallAppend
    \/ CallAppendEndware
    \/ CallAfter
    \/ CallExtend
    \/ CallerMutate

SpecBuild == Init /\ [][NextBuild]_vars

\* The program after  a := New(s...).After(e...)  and  b := New(s2...).After(e2...)
\* for slices of the caller (lines 106-107): two chains, each with
\* constructors and endware of its own, ready to be extended.
InitExtend ==
    \E s \in {x \in ConsArgs : x.arr = 1}, s2 \in {x \in ConsArgs : x.arr = 2},
       e \in EndArgs, e2 \in EndArgs :
        LET n == New(CallerHeap, s)
            a == After(rev, n.heap, n.chain, e)
            n2 == New(a.heap, s2)
            b == After(rev, n2.heap, n2.chain, e2)
            op1 == OpIn(n.heap, << >>, << >>, "NewAfter", 0, 0, e, 1, Nil, NoBehaviour, NoFault)
            op2 == OpIn(n2.heap, << a.chain >>, << >>, "NewAfter", 0, 0, e2, 2, Nil,
                        NoBehaviour, NoFault)
        IN  /\ rev \in {1, 2}
            /\ heap = b.heap
            /\ chains = << a.chain, b.chain >>
            /\ objs = << >>
            /\ handlers = << >>
            /\ requests = 0
            /\ mutations = 0
            /\ trace = << >>
            /\ origin = << Origin(op1), Origin(op2) >>
            /\ threads = [t \in 1..MaxThreads |-> Idle]
            /\ lastOp = op2

\* Extending two chains that both hold constructors and endware.
SpecExtend == InitExtend /\ [][NextBuild]_vars

\* Materializing a chain and serving requests.
NextServe ==
    \/ CallThen
    \/ CallThenFunc
    \/ Serve
    \/ CallerMutate

SpecServe == InitServe /\ [][NextServe]_vars

\* ------------------------------------------------ goroutines, step by step
\* make([]T, 0, n) and the first append (lines 94-95, 162-163): a new backing
\* array holding the elements of the receiver's slice src.
NewSliceSharing(hp, src, n) ==
    IF src.arr = 0
    THEN IF n = 0 THEN [heap |-> hp, slice |-> NilSlice]
         ELSE [heap |-> Append(hp, << >>), slice |-> [arr |-> Len(hp) + 1, len |-> 0]]
    ELSE [heap |-> hp, slice |-> src]

NewSliceOf(hp, src, n) ==
    IF n = 0 THEN [heap |-> hp, slice |-> NilSlice]
    ELSE [heap |-> Append(hp, View(hp, src)),
          slice |-> [arr |-> Len(hp) + 1, len |-> src.len]]

\* append(s, elems...) when s has room (lines 96, 164): the elements are
\* written after the last one of s, in the backing array of s.
AppendTo(hp, s, elems) ==
    IF s.arr = 0 THEN [heap |-> hp, slice |-> s]
    ELSE [heap |-> [hp EXCEPT ![s.arr] = SubSeq(@, 1, s.len) \o elems],
          slice |-> [arr |-> s.arr, len |-> s.len + Len(elems)]]

\* What a chain shows, and what a handler is made of.
ChainShape(hp, c) == [constructors |-> Constructors(hp, c), endware |-> Endwares(hp, c)]

HandlerShape(ob, hp, h, events) ==
    [layers |-> [i \in 1..Len(Layers(ob, h)) |-> ob[Layers(ob, h)[i]].fn],
     endware |-> {Endwares(hp, ob[id].c) : id \in {x \in Reach(ob, h) : ob[x].kind = "adapter"}},
     constructed |-> [i \in 1..Len(events) |-> events[i].fn]]

Busy(ops) == {t \in 1..MaxThreads : threads[t].pc # "idle" /\ threads[t].op \in ops}
ChainOps == {"Append", "AppendEndware", "After", "Extend"}
Started == (Len(chains) - 1) + Len(handlers) + Cardinality(Busy(ChainOps \cup {"Then"}))

\* The record kept of one step of goroutine t.
StepOp(t, res) ==
    [kind |-> "Step", thread |-> t, op |-> threads[t].op, pc |-> threads[t].pc, res |-> res,
     preHeap |-> heap, preChains |-> chains, preObjs |-> objs, preHandlers |-> handlers,
     preThreads |-> threads]

\* One chain, as in InitServe, and every goroutine idle.
InitConc == InitServe

\* Goroutine t is given an operation on chain k.
Begins(t, th) ==
    /\ threads[t].pc = "idle"
    /\ Started < MaxOps
    /\ th.op \in ChainOps => Len(chains) + Cardinality(Busy(ChainOps)) < MaxChains
    /\ th.op = "Then" => Len(handlers) + Cardinality(Busy({"Then"})) < MaxHandlers
    /\ threads' = [threads EXCEPT ![t] = th]
    /\ lastOp' = StepOp(t, 0)
    /\ trace' = << >>
    /\ UNCHANGED <<rev, heap, chains, objs, handlers, requests, mutations, origin>>

Go(t) ==
    \E k \in 1..Len(chains) :
        LET c == chains[k]
            th == [Idle EXCEPT !.recv = k, !.c = c, !.pc = "make"]
        IN  \/ \E s \in ConsArgs :
                  Begins(t, [th EXCEPT !.op = "Append", !.field = "constructors", !.arg = s,
                                       !.expect = LET r == ChainAppend(heap, c, s)
                                                  IN  ChainShape(r.heap, r.chain)])
            \/ \E s \in EndArgs :
                  Begins(t, [th EXCEPT !.op = "AppendEndware", !.field = "endware", !.arg = s,
                                       !.expect = LET r == AppendEndware(heap, c, s)
                                                  IN  ChainShape(r.heap, r.chain)])
            \/ \E s \in EndArgs :
                  \* lines 147-149: AppendEndware on a copy of the receiver;
                  \* lines 310-312: the caller's slice is the endware
                  Begins(t, [th EXCEPT !.op = "After", !.field = "endware", !.arg = s,
                                       !.pc = IF rev = 1 THEN "make" ELSE "ret",
                                       !.dst = IF rev = 1 THEN NilSlice ELSE s,
                                       !.expect = LET r == After(rev, heap, c, s)
                                                  IN  ChainShape(r.heap, r.chain)])
            \/ \E j \in 1..Len(chains) :
                  Begins(t, [th EXCEPT !.op = "Extend", !.field = "constructors",
                                       !.other = chains[j], !.arg = chains[j].constructors,
                                       !.expect = LET r == Extend(heap, c, chains[j])
                                                  IN  ChainShape(r.heap, r.chain)])
            \/ \E h \in {"h1", Nil} :
                  /\ Len(Constructors(heap, c)) <= MaxLen
                  /\ Begins(t, [th EXCEPT !.op = "Then", !.pc = "closure", !.term = h,
                                          !.expect = LET r == Then(objs, heap, c, Handler(h))
                                                     IN  HandlerShape(r.objs, heap, r.h,
                                                                      r.events)])

\* A step of goroutine t that changes its own record and the heap.
Steps(t, th, hp) ==
    /\ threads' = [threads EXCEPT ![t] = th]
    /\ heap' = hp
    /\ lastOp' = StepOp(t, 0)
    /\ trace' = << >>
    /\ UNCHANGED <<rev, chains, objs, handlers, requests, mutations, origin>>

\* newCons := make(...); newCons = append(newCons, c.constructors...)
CopyReceiver(t) ==
    LET th == threads[t]
        src == th.c[th.field]
        m == NewSliceOf(heap, src, src.len + th.arg.len)
    IN  /\ th.pc = "make"
        /\ Steps(t, [th EXCEPT !.dst = m.slice, !.pc = "append"], m.heap)

\* newCons = append(newCons, constructors...)
AppendArgs(t) ==
    LET th == threads[t]
        m == AppendTo(heap, th.dst, View(heap, th.arg))
    IN  /\ th.pc = "append"
        /\ Steps(t, [th EXCEPT !.dst = m.slice, !.pc = "ret"], m.heap)

\* return Chain{newCons, c.endware} / Chain{c.constructors, newEnds}; in
\* Extend the chain Append returned is the receiver of AppendEndware.
ReturnChain(t) ==
    LET th == threads[t]
        ch == IF th.field = "constructors" THEN Chain(th.dst, th.c.endware)
              ELSE Chain(th.c.constructors, th.dst)
    IN  /\ th.pc = "ret"
        /\ IF th.op = "Extend" /\ th.field = "constructors"
           THEN /\ threads' = [threads EXCEPT ![t] =
                                   [th EXCEPT !.c = ch, !.field = "endware",
                                              !.arg = th.other.endware, !.dst = NilSlice,
                                              !.pc = "make"]]
                /\ lastOp' = StepOp(t, 0)
                /\ UNCHANGED <<chains, origin>>
           ELSE /\ threads' = [threads EXCEPT ![t] = Idle]
                /\ chains' = Append(chains, ch)
                /\ origin' = Append(origin, [kind |-> th.op, recv |-> th.recv, other |-> 0,
                                             args |-> View(heap, th.arg)])
                /\ lastOp' = StepOp(t, Len(chains) + 1)
        /\ trace' = << >>
        /\ UNCHANGED <<rev, heap, objs, handlers, requests, mutations>>

\* Lines 49-59: nil becomes http.DefaultServeMux, then the closure is made
\* and assigned to h, the variable the closure reads.
ThenClosure(t) ==
    LET th == threads[t]
        h1 == IF Handler(th.term).kind = "nil" THEN Term(DefaultServeMux) ELSE Handler(th.term)
        a == Len(objs) + 1
    IN  /\ th.pc = "closure"
        /\ objs' = Append(objs, [Adapter(h1, th.c) EXCEPT !.next = Obj(a)])
        /\ threads' = [threads EXCEPT ![t] = [th EXCEPT !.h = Obj(a), !.closure = a,
                                                        !.pc = "loop"]]
        /\ lastOp' = StepOp(t, 0)
        /\ trace' = << >>
        /\ UNCHANGED <<rev, heap, chains, handlers, requests, mutations, origin>>

\* Lines 61-63, one turn of the loop: h = c.constructors[len-1-i](h).
ThenConstruct(t) ==
    LET th == threads[t]
        cons == Constructors(heap, th.c)
        st == Construct([objs |-> objs, h |-> th.h, events |-> th.events],
                        cons[Len(cons) - th.i])
    IN  /\ th.pc = "loop"
        /\ th.i < Len(cons)
        /\ objs' = [st.objs EXCEPT ![th.closure].next = st.h]
        /\ threads' = [threads EXCEPT ![t] = [th EXCEPT !.h = st.h, !.i = @ + 1,
                                                        !.events = st.events]]
        /\ lastOp' = StepOp(t, 0)
        /\ trace' = << >>
        /\ UNCHANGED <<rev, heap, chains, handlers, requests, mutations, origin>>

\* Line 65: return h.
ThenReturn(t) ==
    LET th == threads[t]
    IN  /\ th.pc = "loop"
        /\ th.i >= Len(Constructors(heap, th.c))
        /\ handlers' = Append(handlers, [h |-> th.h, chain |-> th.recv, term |-> th.term,
                                         via |-> "Then"])
        /\ threads' = [threads EXCEPT ![t] = Idle]
        /\ lastOp' = StepOp(t, Len(handlers) + 1)
        /\ trace' = th.events
        /\ UNCHANGED <<rev, heap, chains, objs, requests, mutations, origin>>

\* Goroutines using the chains at the same time, interleaved step by step.
NextConc ==
    \E t \in 1..MaxThreads :
        \/ Go(t)
        \/ CopyReceiver(t)
        \/ AppendArgs(t)
        \/ ReturnChain(t)
        \/ ThenClosure(t)
        \/ ThenConstruct(t)
        \/ ThenReturn(t)

SpecConc == InitConc /\ [][NextConc]_vars

\* ------------------------------------------------------------ properties
Reverse(q) == [i \in 1..Len(q) |-> q[Len(q) + 1 - i]]
Calls(tr) == [i \in 1..Len(tr) |-> << tr[i].op, tr[i].fn >>]
IsEntry(e) == e.op # "exit"
Entries(tr) == Calls(SelectSeq(tr, IsEntry))
Tagged(op, fns) == [i \in 1..Len(fns) |-> << op, fns[i] >>]
Ops(tr) == {tr[i].op : i \in 1..Len(tr)}

Served == lastOp.kind = "Serve"
Materialized == lastOp.kind \in {"Then", "ThenFunc"}
\* The handler the last request went to, its chain and its terminal handler.
ServedBy == handlers[lastOp.res]
ServedChain == chains[ServedBy.chain]
ServedTerm == IF ServedBy.term = Nil THEN DefaultServeMux ELSE ServedBy.term
PassesOn(beh, n) == \A d \in 1..n : beh.calls[d] = 1
NoPanic(beh) == ~beh.termPanics /\ beh.endPanic = 0

\* C1: when every middleware of the chain calls the handler it wraps exactly
\* once and nothing panics, one request to the handler of Then(h) enters
\* c0, c1, ..., cn, then h, then e0, ..., em, in this order, each once.
C1_CallOrder ==
    (Served /\ NoPanic(lastOp.beh)
        /\ PassesOn(lastOp.beh, Len(Constructors(heap, ServedChain))))
    => Entries(trace) =
           Tagged("enter", Constructors(heap, ServedChain))
           \o << << "handler", ServedTerm >> >>
           \o Tagged("endware", Endwares(heap, ServedChain))

\* C3: if the middleware at depth d does not call the handler it wraps, no
\* middleware below it runs, nor the terminal handler, nor any endware.
C3_ShortCircuit ==
    Served =>
        \A d \in 1..Len(Layers(objs, ServedBy.h)) :
            lastOp.beh.calls[d] = 0 =>
                /\ \A j \in (d + 1)..Len(Layers(objs, ServedBy.h)) :
                      \A i \in 1..Len(trace) : trace[i].id # Layers(objs, ServedBy.h)[j]
                /\ "handler" \notin Ops(trace)
                /\ "endware" \notin Ops(trace)

C3_Witness ==
    /\ Served
    /\ Len(Layers(objs, ServedBy.h)) = 2
    /\ lastOp.beh.calls[1] = 1 /\ lastOp.beh.calls[2] = 0
    /\ Len(Endwares(heap, ServedChain)) >= 1
    /\ Len(trace) = 4

\* C4 as stated: during Then(h) no constructor and no endware function is
\* invoked.
C4_ThenCallsNothing == Materialized => trace = << >>

\* C4, amended: during Then(h) every constructor of the chain is called, once
\* each, the last stored first, and nothing else: no middleware handler, no
\* terminal handler and no endware runs.  Those run only while a request is
\* served, and no constructor is called then.
C4_ThenOnlyConstructs ==
    /\ Materialized =>
          /\ Ops(trace) \subseteq {"construct"}
          /\ Len(trace) = Len(Constructors(heap, chains[lastOp.recv]))
          /\ \A i \in 1..Len(trace) :
                trace[i].fn = Constructors(heap, chains[lastOp.recv])[Len(trace) + 1 - i]
          /\ \A id \in DOMAIN objs : objs[id].hits = 0 \/ id \in DOMAIN lastOp.preObjs
    /\ Served => "construct" \notin Ops(trace)

C4_Witness ==
    /\ Materialized
    /\ Len(trace) = 2
    /\ Len(Endwares(heap, chains[lastOp.recv])) >= 1

\* C5: each Then call calls every constructor of the chain exactly once and
\* so builds new middleware instances; no two handlers share an object, a
\* request served by one handler changes no object of another, and Then
\* leaves the chains and their storage as they were.
C5_Reuse ==
    /\ Materialized =>
          /\ Calls(trace) = Tagged("construct",
                                   Reverse(Constructors(heap, chains[lastOp.recv])))
          /\ \A i \in 1..Len(trace) :
                /\ trace[i].id > Len(lastOp.preObjs)
                /\ \A j \in 1..Len(trace) : i # j => trace[i].id # trace[j].id
          /\ \A id \in Reach(objs, handlers[lastOp.res].h) : id > Len(lastOp.preObjs)
          /\ SubSeq(objs, 1, Len(lastOp.preObjs)) = lastOp.preObjs
          /\ chains = lastOp.preChains /\ heap = lastOp.preHeap
    /\ \A i \in 1..Len(handlers), j \in 1..Len(handlers) :
          i # j => Reach(objs, handlers[i].h) \cap Reach(objs, handlers[j].h) = {}
    /\ Served =>
          /\ \A j \in 1..Len(handlers) :
                j # lastOp.res =>
                    \A id \in Reach(objs, handlers[j].h) : objs[id] = lastOp.preObjs[id]
          /\ chains = lastOp.preChains /\ heap = lastOp.preHeap

C5_Witness ==
    /\ Served
    /\ Len(handlers) = 2
    /\ handlers[1].chain = handlers[2].chain
    /\ handlers[1].term = "h1" /\ handlers[2].term = "h2"
    /\ Len(Layers(objs, handlers[1].h)) = 2
    /\ lastOp.res = 1
    /\ objs[handlers[1].h.id].hits = 1
    /\ objs[handlers[2].h.id].hits = 0

\* C8: a request served by the handler of Then(nil) or ThenFunc(nil) in which
\* every middleware calls the handler it wraps is dispatched to
\* http.DefaultServeMux, and ends without a fault unless a handler or an
\* endware panics.
C8_NilIsDefaultServeMux ==
    (Served /\ ServedBy.term = Nil) =>
        /\ (\A d \in 1..Len(Layers(objs, ServedBy.h)) : lastOp.beh.calls[d] >= 1)
              => << "handler", DefaultServeMux >> \in
                     {Calls(trace)[i] : i \in 1..Len(trace)}
        /\ (~lastOp.beh.termPanics
              /\ lastOp.beh.endPanic \notin 1..Len(Endwares(heap, ServedChain)))
              => lastOp.fault = NoFault

\* The chain the last operation returned, and its sequences.
Extended == lastOp.kind \in {"Append", "AppendEndware", "After", "Extend"}
Returned == chains[lastOp.res]
Cons(k) == Constructors(heap, chains[k])
Ends(k) == Endwares(heap, chains[k])

\* C2: C.After(E) has the constructors of C and the endware E, whatever
\* endware C held (so C.After(E1).After(E2) has endware E2).
C2_AfterReplaces ==
    lastOp.kind = "After" =>
        /\ Endwares(heap, Returned) = lastOp.args
        /\ Constructors(heap, Returned) = lastOp.pre[lastOp.recv].constructors

\* C6: Append, AppendEndware, After and Extend return a new chain and leave
\* every chain that existed, the receiver and the argument chain included,
\* with the constructor and endware sequences it had.
C6_Persistence ==
    Extended =>
        /\ Len(chains) = Len(lastOp.preChains) + 1
        /\ lastOp.res = Len(chains)
        /\ \A k \in 1..Len(lastOp.preChains) :
              /\ chains[k] = lastOp.preChains[k]
              /\ Cons(k) = lastOp.pre[k].constructors
              /\ Ends(k) = lastOp.pre[k].endware
        /\ \A a \in 1..Len(lastOp.preHeap) : heap[a] = lastOp.preHeap[a]

C6_Witness ==
    /\ lastOp.kind = "Append" /\ Len(lastOp.args) >= 1
    /\ Len(chains) = 3
    /\ origin[2].kind = "Append" /\ origin[2].recv = 1 /\ Len(origin[2].args) >= 1
    /\ lastOp.recv = 1
    /\ Len(Cons(1)) >= 1
    /\ Cons(2) # Cons(3)

\* C7: A.Extend(B) has the constructors of A followed by those of B and the
\* endware of A followed by that of B; A = ([m1,m2],[]) and B = ([m3,m4],[e1])
\* give ([m1,m2,m3,m4],[e1]).
ExtendExample ==
    LET a == New(CallerHeap, [arr |-> 1, len |-> 2])
        b0 == New(a.heap, [arr |-> 2, len |-> 2])
        b == After(rev, b0.heap, b0.chain, [arr |-> 3, len |-> 1])
    IN  Extend(b.heap, a.chain, b.chain)

C7_Extend ==
    /\ lastOp.kind = "Extend" =>
          /\ Constructors(heap, Returned) =
                 lastOp.pre[lastOp.recv].constructors \o lastOp.pre[lastOp.other].constructors
          /\ Endwares(heap, Returned) =
                 lastOp.pre[lastOp.recv].endware \o lastOp.pre[lastOp.other].endware
    /\ Constructors(ExtendExample.heap, ExtendExample.chain) = <<"m1", "m2", "m3", "m4">>
    /\ Endwares(ExtendExample.heap, ExtendExample.chain) = <<"e1">>

\* The example of the claim, as a state: A = ([m1,m2],[]) extended by
\* B = ([m3,m4],[e1]).
C7_Witness ==
    /\ lastOp.kind = "Extend"
    /\ lastOp.recv = 1 /\ lastOp.other = 2
    /\ lastOp.pre[1].constructors = <<"m1", "m2">>
    /\ lastOp.pre[1].endware = << >>
    /\ lastOp.pre[2].constructors = <<"m3", "m4">>
    /\ lastOp.pre[2].endware = <<"e1">>
    /\ Constructors(heap, Returned) = <<"m1", "m2", "m3", "m4">>
    /\ Endwares(heap, Returned) = <<"e1">>

\* What one request does that goes through Then(h) of chain c and meets no
\* short-circuit and no panic.
RunOf(hp, c, h) ==
    LET t == Then(<< >>, hp, c, Handler(h))
    IN  Calls(ServeHTTP(t.objs, hp, t.h, Request(NoBehaviour)).ev)

\* C9: New(constructors...) holds a copy of the given sequence and no
\* endware; a later write of the caller to its array changes the constructor
\* sequence of no chain; New() is the identity chain: Then(h) runs only h.
C9_NewCopies ==
    /\ lastOp.kind = "New" =>
          /\ Constructors(heap, Returned) = lastOp.args
          /\ Endwares(heap, Returned) = << >>
          /\ lastOp.args = << >> =>
                \A h \in TerminalFns : RunOf(heap, Returned, h) = << << "handler", h >> >>
    /\ lastOp.kind = "Mutate" =>
          \A k \in 1..Len(chains) : Cons(k) = lastOp.pre[k].constructors

C9_Witness ==
    /\ lastOp.kind = "Mutate"
    /\ Len(chains) = 2
    /\ origin[1].kind = "New" /\ Len(origin[1].args) = 2
    /\ origin[2].kind = "Append" /\ origin[2].recv = 1 /\ Len(origin[2].args) >= 1
    /\ heap[1] # CallerHeap[1]
    /\ Cons(1) = CallerHeap[1]

\* C10: C.Append(X).Append(Y) has the constructors of C, then X, then Y, and
\* the endware of C: the sequences of C.Append(X followed by Y).
AppendBoth(k, X, Y) ==
    LET m == MakeSlice(heap, X \o Y)
    IN  ChainAppend(m.heap, chains[k], m.slice)

C10_AppendAssociative ==
    \A k3 \in 1..Len(chains) :
        (origin[k3].kind = "Append" /\ origin[origin[k3].recv].kind = "Append") =>
            LET k2 == origin[k3].recv
                k1 == origin[k2].recv
                one == AppendBoth(k1, origin[k2].args, origin[k3].args)
            IN  /\ Cons(k3) = Cons(k1) \o origin[k2].args \o origin[k3].args
                /\ Ends(k3) = Ends(k1)
                /\ Cons(k3) = Constructors(one.heap, one.chain)
                /\ Ends(k3) = Endwares(one.heap, one.chain)

C10_Witness ==
    /\ Len(chains) = 3
    /\ origin[3].kind = "Append" /\ origin[3].recv = 2
    /\ origin[2].kind = "Append" /\ origin[2].recv = 1
    /\ Len(Cons(1)) >= 1
    /\ Len(origin[2].args) >= 1 /\ Len(origin[3].args) >= 1
    /\ origin[2].args # origin[3].args
    /\ Len(Cons(3)) >= 3

\* C11: Append leaves the endware as the receiver has it; AppendEndware
\* gives the receiver's endware followed by the arguments and leaves the
\* constructors as the receiver has them; After leaves the constructors as
\* the receiver has them.
C11_Independent ==
    /\ lastOp.kind = "Append" =>
          Endwares(heap, Returned) = lastOp.pre[lastOp.recv].endware
    /\ lastOp.kind = "AppendEndware" =>
          /\ Endwares(heap, Returned) = lastOp.pre[lastOp.recv].endware \o lastOp.args
          /\ Constructors(heap, Returned) = lastOp.pre[lastOp.recv].constructors
    /\ lastOp.kind = "After" =>
          Constructors(heap, Returned) = lastOp.pre[lastOp.recv].constructors

C11_Witness ==
    /\ lastOp.kind = "Append" /\ Len(lastOp.args) >= 1
    /\ Len(chains) = 3
    /\ origin[2].kind = "AppendEndware" /\ origin[2].recv = 1 /\ Len(origin[2].args) = 2
    /\ lastOp.recv = 2
    /\ Len(Cons(1)) >= 1
    /\ Ends(3) = <<"e1", "e2">>
    /\ Len(Cons(3)) >= 2

\* What a request of behaviour beh does when handler h serves it.
Run(ob, hp, h, beh) ==
    LET r == ServeHTTP(ob, hp, h, Request(beh))
    IN  [calls |-> Calls(r.ev), fault |-> r.fault]

\* The closures a handler reaches.
Closures(ob, h) == {id \in Reach(ob, h) : ob[id].kind = "adapter"}

\* C12: for a fn that is not nil, c.ThenFunc(fn) makes its closure out of fn
\* as an http.Handler and gives what c.Then(http.HandlerFunc(fn)) gives: the
\* same calls of constructors, the same handler, and in every request the
\* same calls and the same end.  For a nil fn it makes its closure out of
\* http.DefaultServeMux and gives what c.Then(nil) gives; no closure is ever
\* made out of a nil func.
C12_ThenFuncIsThen ==
    lastOp.kind = "ThenFunc" =>
        LET c == chains[lastOp.recv]
            made == handlers[lastOp.res].h
            t == IF lastOp.h = Nil THEN Then(lastOp.preObjs, heap, c, NilHandler)
                 ELSE Then(lastOp.preObjs, heap, c, Term(lastOp.h))
        IN  /\ Closures(objs, made) # {}
            /\ \A id \in Closures(objs, made) :
                  /\ objs[id].given # Term(NilFunc)
                  /\ objs[id].given # NilHandler
                  /\ objs[id].given =
                         Term(IF lastOp.h = Nil THEN DefaultServeMux ELSE lastOp.h)
            /\ trace = t.events
            /\ made = t.h
            /\ objs = t.objs
            /\ \A beh \in Behaviours :
                  Run(objs, heap, made, beh) = Run(t.objs, heap, t.h, beh)

C12_Witness ==
    /\ lastOp.kind = "ThenFunc"
    /\ Len(handlers) = 2
    /\ handlers[1].via = "ThenFunc" /\ handlers[1].term = Nil
    /\ handlers[2].via = "ThenFunc" /\ handlers[2].term = "h1"
    /\ handlers[1].chain = handlers[2].chain
    /\ Len(trace) = 2
    /\ Len(Endwares(heap, chains[lastOp.recv])) = 2
    /\ \E id \in Closures(objs, handlers[1].h) : objs[id].given = Term(DefaultServeMux)
    /\ \E id \in Closures(objs, handlers[2].h) : objs[id].given = Term("h1")
    /\ \E beh \in Behaviours :
          "endware" \in {c[1] : c \in {Run(objs, heap, handlers[2].h, beh).calls[i] :
                                           i \in 1..Len(Run(objs, heap, handlers[2].h, beh).calls)}}

\* The backing arrays and the objects that something other than goroutine t
\* can reach: the caller's arrays, what the chains and handlers hold, and
\* what the other goroutines work with.
SliceArrays(c) == {c.constructors.arr, c.endware.arr}

SharedArrays(op) ==
    (CallerConsArrays \cup CallerEndArrays
        \cup UNION {SliceArrays(op.preChains[k]) : k \in 1..Len(op.preChains)}
        \cup UNION {SliceArrays(op.preThreads[u].c) \cup SliceArrays(op.preThreads[u].other)
                        \cup {op.preThreads[u].arg.arr, op.preThreads[u].dst.arr} :
                    u \in (1..MaxThreads) \ {op.thread}}) \ {0}

SharedObjects(op) ==
    (UNION {Reach(op.preObjs, op.preHandlers[i].h) : i \in 1..Len(op.preHandlers)}
        \cup UNION {Reach(op.preObjs, op.preThreads[u].h) \cup {op.preThreads[u].closure} :
                    u \in (1..MaxThreads) \ {op.thread}}) \ {0}

\* C13: whatever the interleaving, a step of a goroutine running Append,
\* AppendEndware, After, Extend or Then writes to no backing array and no
\* object that a chain, a handler, the caller or another goroutine can reach,
\* and the chain or handler an operation returns has the sequences the
\* operation gives when it runs alone.
C13_NoSharedWrites ==
    lastOp.kind = "Step" =>
        /\ \A a \in SharedArrays(lastOp) : heap[a] = lastOp.preHeap[a]
        /\ \A id \in SharedObjects(lastOp) : objs[id] = lastOp.preObjs[id]
        /\ \A k \in 1..Len(lastOp.preChains) :
              /\ chains[k] = lastOp.preChains[k]
              /\ ChainShape(heap, chains[k]) = ChainShape(lastOp.preHeap, lastOp.preChains[k])
        /\ \A i \in 1..Len(lastOp.preHandlers) : handlers[i] = lastOp.preHandlers[i]
        /\ (lastOp.res # 0 /\ lastOp.op \in ChainOps) =>
              ChainShape(heap, chains[lastOp.res]) = lastOp.preThreads[lastOp.thread].expect
        /\ (lastOp.res # 0 /\ lastOp.op = "Then") =>
              HandlerShape(objs, heap, handlers[lastOp.res].h, trace)
                  = lastOp.preThreads[lastOp.thread].expect

C13_Witness ==
    /\ lastOp.kind = "Step" /\ lastOp.res # 0 /\ lastOp.op = "Append"
    /\ Len(View(heap, lastOp.preThreads[lastOp.thread].arg)) >= 1
    /\ \E u \in (1..MaxThreads) \ {lastOp.thread} :
          /\ threads[u].op = "Extend" /\ threads[u].pc = "ret" /\ threads[u].field = "endware"
          /\ threads[u].recv = lastOp.preThreads[lastOp.thread].recv
          /\ threads[u].dst.len >= 1
    /\ Len(Cons(1)) >= 1 /\ Len(Ends(1)) >= 1

\* A chain with the sequences of c in backing arrays of its own.
CopyOf(hp, c) == Extend(hp, NoChain, c)

\* C14: handlers built from chains with the same constructors and the same
\* endware and from the same terminal handler make the same calls, and end
\* the same way, in a request in which the middleware behave the same: what
\* a request did is what it does through any other handler built from the
\* same chain and terminal handler, and through one built now from a copy of
\* the chain.
C14_Deterministic ==
    Served =>
        LET e == CopyOf(heap, ServedChain)
            t == Then(objs, e.heap, e.chain, Handler(ServedBy.term))
            done == [calls |-> Calls(trace), fault |-> lastOp.fault]
        IN  /\ ChainShape(e.heap, e.chain) = ChainShape(heap, ServedChain)
            /\ Run(t.objs, e.heap, t.h, lastOp.beh) = done
            /\ \A j \in (1..Len(handlers)) \ {lastOp.res} :
                  (handlers[j].chain = ServedBy.chain /\ handlers[j].term = ServedBy.term)
                  => Run(objs, heap, handlers[j].h, lastOp.beh) = done

C14_Witness ==
    /\ Served
    /\ Len(handlers) = 2
    /\ handlers[1].chain = handlers[2].chain
    /\ handlers[1].term = "h2" /\ handlers[2].term = "h2"
    /\ handlers[1].via = "Then" /\ handlers[2].via = "Then"
    /\ Len(Layers(objs, handlers[1].h)) = 2
    /\ Len(Endwares(heap, ServedChain)) = 2
    /\ lastOp.res = 1
    /\ "endware" \in Ops(trace)
    /\ objs[handlers[2].h.id].hits = 0

\* C15: the chain that Append, AppendEndware, After or Extend returns holds
\* no slice of a backing array of the caller, and a later write of the caller
\* to one of its arrays changes neither the constructors nor the endware of
\* any chain, nor the endware that a handler built before the write runs.
C15_NoAliasing ==
    /\ Extended =>
          SliceArrays(Returned) \cap (CallerConsArrays \cup CallerEndArrays) = {}
    /\ lastOp.kind = "Mutate" =>
          \A k \in 1..Len(chains) :
              LET t == Then(<< >>, lastOp.preHeap, chains[k], Term("h1"))
              IN  /\ Cons(k) = lastOp.pre[k].constructors
                  /\ Ends(k) = lastOp.pre[k].endware
                  /\ HandlerShape(t.objs, heap, t.h, t.events).endware
                         = HandlerShape(t.objs, lastOp.preHeap, t.h, t.events).endware

\* Where the calls of one kind are in a trace.
Positions(tr, op) == {p \in 1..Len(tr) : tr[p].op = op}

\* C16: in a request whose terminal handler panics no endware runs; when
\* endware ei panics no later endware runs; in both cases the request ends
\* with that panic; and no endware runs unless the terminal handler ran
\* before it and returned.
C16_FaultsStopTheChain ==
    Served =>
        /\ (lastOp.beh.termPanics /\ "handler" \in Ops(trace)) =>
              /\ "endware" \notin Ops(trace)
              /\ lastOp.fault = Panic
        /\ \A p \in Positions(trace, "endware") :
              (lastOp.beh.endPanic \in 1..Len(Endwares(heap, ServedChain))
                  /\ trace[p].fn = Endwares(heap, ServedChain)[lastOp.beh.endPanic]
                  /\ Len(Positions(SubSeq(trace, 1, p), "endware")) = lastOp.beh.endPanic)
              => /\ p = Len(trace)
                 /\ lastOp.fault = Panic
        /\ \A p \in Positions(trace, "endware") :
              /\ ~lastOp.beh.termPanics
              /\ \E q \in Positions(trace, "handler") : q < p

\* The calls and returns of a trace.
CallsAndReturns(tr) == [i \in 1..Len(tr) |-> << tr[i].op, tr[i].fn >>]

\* C17: when every middleware calls the handler it wraps once and nothing
\* panics, a request enters c0, ..., cn, runs h, runs e0, ..., em, and only
\* then leaves cn, ..., c0.
C17_EndwareInsideTheWrappers ==
    (Served /\ NoPanic(lastOp.beh)
        /\ PassesOn(lastOp.beh, Len(Constructors(heap, ServedChain))))
    => CallsAndReturns(trace) =
           Tagged("enter", Constructors(heap, ServedChain))
           \o << << "handler", ServedTerm >> >>
           \o Tagged("endware", Endwares(heap, ServedChain))
           \o Tagged("exit", Reverse(Constructors(heap, ServedChain)))

\* C18: when one middleware calls the handler it wraps k times, every other
\* one once, and nothing panics, the terminal handler runs k times and each
\* of its runs is followed at once by e0, ..., em; no other endware runs.
C18_EndwarePerHandlerRun ==
    (Served /\ NoPanic(lastOp.beh)) =>
        \A d \in 1..Len(Constructors(heap, ServedChain)) :
            (\A d2 \in (1..Len(Constructors(heap, ServedChain))) \ {d} :
                 lastOp.beh.calls[d2] = 1)
            => LET es == Endwares(heap, ServedChain)
                   hs == Positions(trace, "handler")
               IN  /\ Cardinality(hs) = lastOp.beh.calls[d]
                   /\ Cardinality(Positions(trace, "endware")) = lastOp.beh.calls[d] * Len(es)
                   /\ \A p \in hs :
                         /\ p + Len(es) <= Len(trace)
                         /\ Calls(SubSeq(trace, p + 1, p + Len(es))) = Tagged("endware", es)

====
